---------------------------- MODULE Spec2Model ----------------------------
(***************************************************************************)
(* TEM backend: the conversation store (backend/database.py, SQLite) and   *)
(* the request handlers that use it (backend/app.py, Flask).               *)
(*                                                                         *)
(* The committed database is the variable db; a writer works on a private  *)
(* copy txn[p] that becomes db at conn.commit() and is dropped when the    *)
(* process dies (python's sqlite3 opens an implicit transaction before the *)
(* first INSERT/DELETE of a connection; SQLite admits one writer).         *)
(* Text is a sequence of one-character strings, so that strip() is         *)
(* computed and not assumed.                                               *)
(***************************************************************************)
EXTENDS Integers, Sequences, FiniteSets, TLC

VARIABLES
    api_key,    \* OPENROUTER_API_KEY, read from the environment at start-up
    db,         \* committed database: conversations, user_stats, sqlite_sequence
    writer,     \* the process holding SQLite's write lock, or "none"
    txn,        \* txn[p]: the uncommitted database image of p's connection
    pc,         \* pc[p]: where p's current request handler stands
    req,        \* req[p]: the locals of p's current request handler
    rsp         \* rsp[p]: the HTTP response of p's latest request

vars == <<api_key, db, writer, txn, pc, req, rsp>>

---------------------------------------------------------------------------
(* Bounds of the model *)

\* ids the AUTOINCREMENT counter may hand out in Spec
MaxRows == 2
\* ids the AUTOINCREMENT counter may hand out in SpecService
MaxServiceRows == 3
\* largest limit a history request is made with
MaxLimit == 2
\* ids the AUTOINCREMENT counter may hand out in SpecContext
MaxCtxRows == 18
\* the first turns of SpecContext, which follow a fixed script
CtxScripted == 15
\* largest stored conversation count in SpecLevel
MaxCount == 52

(* Program constants *)

\* db.get_conversation_history(user_id, limit=10) in chat()
HistoryLimit == 10
\* request.args.get('limit', 20) in get_history()
DefaultLimit == 20

Procs == {"p1", "p2"}
Users == {"default_user", "u2"}
Whitespace == {" "}
\* the fixed preamble; its text is never inspected
SYSTEM_PROMPT == <<"S">>

Min(a, b) == IF a < b THEN a ELSE b

---------------------------------------------------------------------------
(* Text *)

RECURSIVE lstrip(_)
lstrip(s) ==
    IF s = <<>> THEN s
    ELSE IF Head(s) \in Whitespace THEN lstrip(Tail(s)) ELSE s

RECURSIVE rstrip(_)
rstrip(s) ==
    IF s = <<>> THEN s
    ELSE IF s[Len(s)] \in Whitespace THEN rstrip(SubSeq(s, 1, Len(s) - 1)) ELSE s

\* a validation that forgets to trim
stripNothing(s) == s

\* str.strip()
strip(s) == rstrip(lstrip(s))

Reverse(s) == [i \in 1..Len(s) |-> s[Len(s) + 1 - i]]

---------------------------------------------------------------------------
(* The database: backend/database.py *)

NoStats == [present |-> FALSE, total_conversations |-> 0, last_active |-> 0]

\* init_database(): both tables empty
EmptyDb ==
    [conversations |-> {}, user_stats |-> [u \in Users |-> NoStats],
     sqlite_sequence |-> 0]

\* INSERT INTO conversations ...: AUTOINCREMENT takes the next unused id
InsertConversation(d, user_id, user_message, ai_response, timestamp) ==
    LET id == d.sqlite_sequence + 1
    IN  [d EXCEPT
            !.conversations = @ \cup
                {[id |-> id, user_id |-> user_id, user_message |-> user_message,
                  ai_response |-> ai_response, timestamp |-> timestamp]},
            !.sqlite_sequence = id]

\* INSERT OR REPLACE in place of the upsert: the counter restarts at 1
ReplaceStats(d, user_id, timestamp) ==
    [d EXCEPT !.user_stats[user_id] =
        [present |-> TRUE, total_conversations |-> 1, last_active |-> timestamp]]

\* INSERT INTO user_stats ... ON CONFLICT(user_id) DO UPDATE SET total = total + 1
UpsertStats(d, user_id, timestamp) ==
    [d EXCEPT !.user_stats[user_id] =
        IF @.present
        THEN [@ EXCEPT !.total_conversations = @ + 1, !.last_active = timestamp]
        ELSE [present |-> TRUE, total_conversations |-> 1,
              last_active |-> timestamp]]

\* DELETE FROM conversations WHERE user_id = ?
DeleteConversations(d, user_id) ==
    [d EXCEPT !.conversations = {r \in @ : r.user_id # user_id}]

\* a clear that forgets the stats row
KeepStats(d, user_id) == d

\* DELETE FROM user_stats WHERE user_id = ?
DeleteStats(d, user_id) ==
    [d EXCEPT !.user_stats[user_id] = NoStats]

\* ORDER BY timestamp DESC in place of ORDER BY id DESC
RECURSIVE OrderByTimestampDesc(_)
OrderByTimestampDesc(S) ==
    IF S = {} THEN <<>>
    ELSE LET m == CHOOSE r \in S : \A q \in S : q.timestamp <= r.timestamp
         IN  <<m>> \o OrderByTimestampDesc(S \ {m})

\* ORDER BY id DESC
RECURSIVE OrderByIdDesc(_)
OrderByIdDesc(S) ==
    IF S = {} THEN <<>>
    ELSE LET m == CHOOSE r \in S : \A q \in S : q.id <= r.id
         IN  <<m>> \o OrderByIdDesc(S \ {m})

\* LIMIT ?: SQLite reads a negative limit as no limit
Limit(s, limit) ==
    IF limit < 0 THEN s ELSE SubSeq(s, 1, Min(limit, Len(s)))

\* the rows fetched, newest first, returned as they come
SelectNewestFirst(d, user_id, limit) ==
    Limit(OrderByIdDesc({r \in d.conversations : r.user_id = user_id}), limit)

\* the rows of get_conversation_history, after history.reverse()
SelectHistory(d, user_id, limit) ==
    Reverse(Limit(OrderByIdDesc({r \in d.conversations : r.user_id = user_id}),
                  limit))

\* dict(row) of SELECT user_message, ai_response, timestamp
RowDict(r) ==
    [user_message |-> r.user_message, ai_response |-> r.ai_response,
     timestamp |-> r.timestamp]

\* Database.get_conversation_history
get_conversation_history(d, user_id, limit) ==
    LET rows == SelectHistory(d, user_id, limit)
    IN  [i \in 1..Len(rows) |-> RowDict(rows[i])]

\* Database.get_conversation_count
get_conversation_count(d, user_id) ==
    IF d.user_stats[user_id].present
    THEN d.user_stats[user_id].total_conversations
    ELSE 0


\* Database.get_user_level with the boundary off by one
get_user_level_ge(d, user_id) ==
    LET count == get_conversation_count(d, user_id)
    IN  IF count >= 50 THEN "Advanced"
        ELSE IF count > 20 THEN "Intermediate"
        ELSE "Beginner"

\* Database.get_user_level
get_user_level(d, user_id) ==
    LET count == get_conversation_count(d, user_id)
    IN  IF count > 50 THEN "Advanced"
        ELSE IF count > 20 THEN "Intermediate"
        ELSE "Beginner"

---------------------------------------------------------------------------
(* The service: backend/app.py *)

\* the level of chat(): "Beginner" unless one of the two tests fires
ChatLevel(conversation_count) ==
    IF conversation_count > 50 THEN "Advanced"
    ELSE IF conversation_count > 20 THEN "Intermediate"
    ELSE "Beginner"

\* the level of get_stats()
StatsLevel(conversation_count) ==
    IF conversation_count > 50 THEN "Advanced"
    ELSE IF conversation_count > 20 THEN "Intermediate"
    ELSE "Beginner"

\* a key test that lets the empty key through
KeyNeverMissing(key) == FALSE

\* not OPENROUTER_API_KEY
KeyMissing(key) == key = ""

\* data.get('message', '')
GetMessage(data) == IF data.has_message THEN data.message ELSE <<>>

\* data.get('user_id', 'default_user') and request.args.get('user_id', ...)
GetUserId(data) == IF data.has_user_id THEN data.user_id ELSE "default_user"

\* int(request.args.get('limit', 20))
GetLimit(args) == IF args.has_limit THEN args.limit ELSE DefaultLimit

\* the for loop of chat(): one user entry and one assistant entry per turn
RECURSIVE FormatHistory(_)
FormatHistory(history) ==
    IF history = <<>> THEN <<>>
    ELSE <<[role |-> "user", content |-> Head(history).user_message],
           [role |-> "assistant", content |-> Head(history).ai_response]>>
         \o FormatHistory(Tail(history))

\* a context built from the whole history
BuildMessagesUnbounded(d, user_id, user_message) ==
    FormatHistory(get_conversation_history(d, user_id, 0 - 1))
        \o <<[role |-> "user", content |-> user_message]>>

\* chat(): the history of the last 10 turns, then the current message
BuildMessages(d, user_id, user_message) ==
    FormatHistory(get_conversation_history(d, user_id, HistoryLimit))
        \o <<[role |-> "user", content |-> user_message]>>

\* payload["messages"] of call_openrouter_api
Payload(messages) ==
    <<[role |-> "system", content |-> SYSTEM_PROMPT]>> \o messages

\* what requests.post can end in: a 200 with a content, another status, a
\* timeout, or any other exception (a body that is not the expected JSON too)
Outcomes(texts) ==
    {[kind |-> "ok", text |-> t] : t \in texts}
        \cup {[kind |-> k, text |-> <<>>] : k \in {"status", "timeout", "exception"}}

\* the dict call_openrouter_api returns after the POST
ApiResult(outcome) ==
    IF outcome.kind = "ok"
    THEN [error |-> FALSE, response |-> outcome.text, message |-> ""]
    ELSE IF outcome.kind = "status"
    THEN [error |-> TRUE, response |-> <<>>, message |-> "API Error"]
    ELSE IF outcome.kind = "timeout"
    THEN [error |-> TRUE, response |-> <<>>, message |-> "Request timeout"]
    ELSE [error |-> TRUE, response |-> <<>>, message |-> "Error calling AI"]

\* a handler that never looks at the error flag
ResultNeverError(result) == FALSE

\* if result['error']
ResultIsError(result) == result.error

NoReq ==
    [op |-> "none", user_id |-> "default_user", user_message |-> <<>>,
     limit |-> 0, called |-> FALSE, sent |-> <<>>, ai_response |-> <<>>,
     timestamp |-> 0]

NoRsp ==
    [status |-> 0, error |-> FALSE, message |-> "", response |-> <<>>,
     level |-> "", conversation_count |-> 0, history |-> <<>>]

\* the connection of a request that died with the process
LostRsp == [NoRsp EXCEPT !.status = 0 - 1]

ErrorRsp(status, message) ==
    [NoRsp EXCEPT !.status = status, !.error = TRUE, !.message = message]

---------------------------------------------------------------------------
(* The handlers, one action per step between two blocking points *)

TypeOK ==
    /\ api_key \in {"", "sk"}
    /\ writer \in Procs \cup {"none"}
    /\ pc \in [Procs -> {"idle", "calling", "save", "insert_done", "upsert_done",
                         "saved", "delete_done", "stats_deleted"}]

Init ==
    /\ api_key \in {"", "sk"}
    /\ db = EmptyDb
    /\ writer = "none"
    /\ txn = [p \in Procs |-> EmptyDb]
    /\ pc = [p \in Procs |-> "idle"]
    /\ req = [p \in Procs |-> NoReq]
    /\ rsp = [p \in Procs |-> NoRsp]

\* chat(), from the request to the POST to the provider (or to an early return)
ChatBegin(p, data) ==
    /\ pc[p] = "idle"
    /\ LET user_message == strip(GetMessage(data))
           user_id == GetUserId(data)
           messages == BuildMessages(db, user_id, user_message)
           r == [NoReq EXCEPT !.op = "chat", !.user_id = user_id,
                              !.user_message = user_message]
       IN  IF user_message = <<>>
           THEN /\ rsp' = [rsp EXCEPT ![p] = ErrorRsp(400, "Message cannot be empty")]
                /\ req' = [req EXCEPT ![p] = r]
                /\ pc' = pc
           ELSE IF KeyMissing(api_key)
           THEN /\ rsp' = [rsp EXCEPT ![p] = ErrorRsp(500, "API key not configured")]
                /\ req' = [req EXCEPT ![p] = r]
                /\ pc' = pc
           ELSE /\ rsp' = [rsp EXCEPT ![p] = NoRsp]
                /\ req' = [req EXCEPT ![p] =
                             [r EXCEPT !.called = TRUE, !.sent = Payload(messages)]]
                /\ pc' = [pc EXCEPT ![p] = "calling"]
    /\ UNCHANGED <<api_key, db, writer, txn>>

\* chat(), from the end of the POST to the call of db.save_conversation
ProviderReturn(p, outcome) ==
    /\ pc[p] = "calling"
    /\ LET result == ApiResult(outcome)
       IN  IF ResultIsError(result)
           THEN /\ rsp' = [rsp EXCEPT ![p] = ErrorRsp(500, result.message)]
                /\ pc' = [pc EXCEPT ![p] = "idle"]
                /\ req' = req
           ELSE /\ req' = [req EXCEPT ![p].ai_response = result.response]
                /\ pc' = [pc EXCEPT ![p] = "save"]
                /\ rsp' = rsp
    /\ UNCHANGED <<api_key, db, writer, txn>>

\* save_conversation: datetime.now() and the INSERT, which opens the transaction
\* and takes the write lock
SaveInsert(p, timestamp, cap) ==
    /\ pc[p] = "save"
    /\ writer = "none"
    /\ db.sqlite_sequence < cap
    /\ writer' = p
    /\ req' = [req EXCEPT ![p].timestamp = timestamp]
    /\ txn' = [txn EXCEPT ![p] =
                 InsertConversation(db, req[p].user_id, req[p].user_message,
                                    req[p].ai_response, timestamp)]
    /\ pc' = [pc EXCEPT ![p] = "insert_done"]
    /\ UNCHANGED <<api_key, db, rsp>>

\* save_conversation: the upsert of user_stats, in the same transaction
SaveUpsert(p) ==
    /\ pc[p] = "insert_done"
    /\ txn' = [txn EXCEPT ![p] = UpsertStats(@, req[p].user_id, req[p].timestamp)]
    /\ pc' = [pc EXCEPT ![p] = "upsert_done"]
    /\ UNCHANGED <<api_key, db, writer, req, rsp>>

\* save_conversation: conn.commit()
SaveCommit(p) ==
    /\ pc[p] = "upsert_done"
    /\ db' = txn[p]
    /\ txn' = [txn EXCEPT ![p] = EmptyDb]
    /\ writer' = "none"
    /\ pc' = [pc EXCEPT ![p] = "saved"]
    /\ UNCHANGED <<api_key, req, rsp>>

\* chat(): the count is read back, the level derived, the response returned
ChatFinish(p) ==
    /\ pc[p] = "saved"
    /\ LET conversation_count == get_conversation_count(db, req[p].user_id)
       IN  rsp' = [rsp EXCEPT ![p] =
                     [NoRsp EXCEPT !.status = 200,
                                   !.response = req[p].ai_response,
                                   !.level = ChatLevel(conversation_count),
                                   !.conversation_count = conversation_count]]
    /\ pc' = [pc EXCEPT ![p] = "idle"]
    /\ UNCHANGED <<api_key, db, writer, txn, req>>

\* clear_history(): the first DELETE of clear_user_history
ClearBegin(p, data) ==
    /\ pc[p] = "idle"
    /\ writer = "none"
    /\ writer' = p
    /\ req' = [req EXCEPT ![p] =
                 [NoReq EXCEPT !.op = "clear", !.user_id = GetUserId(data)]]
    /\ rsp' = [rsp EXCEPT ![p] = NoRsp]
    /\ txn' = [txn EXCEPT ![p] = DeleteConversations(db, GetUserId(data))]
    /\ pc' = [pc EXCEPT ![p] = "delete_done"]
    /\ UNCHANGED <<api_key, db>>

\* clear_user_history: the second DELETE
ClearStats(p) ==
    /\ pc[p] = "delete_done"
    /\ txn' = [txn EXCEPT ![p] = DeleteStats(@, req[p].user_id)]
    /\ pc' = [pc EXCEPT ![p] = "stats_deleted"]
    /\ UNCHANGED <<api_key, db, writer, req, rsp>>

\* clear_user_history: conn.commit(), and the response of clear_history()
ClearCommit(p) ==
    /\ pc[p] = "stats_deleted"
    /\ db' = txn[p]
    /\ txn' = [txn EXCEPT ![p] = EmptyDb]
    /\ writer' = "none"
    /\ rsp' = [rsp EXCEPT ![p] =
                 [NoRsp EXCEPT !.status = 200,
                               !.message = "History cleared successfully"]]
    /\ pc' = [pc EXCEPT ![p] = "idle"]
    /\ UNCHANGED <<api_key, req>>

\* get_history()
GetHistory(p, args) ==
    /\ pc[p] = "idle"
    /\ LET user_id == GetUserId(args)
           limit == GetLimit(args)
       IN  /\ req' = [req EXCEPT ![p] =
                        [NoReq EXCEPT !.op = "history", !.user_id = user_id,
                                      !.limit = limit]]
           /\ rsp' = [rsp EXCEPT ![p] =
                        [NoRsp EXCEPT !.status = 200,
                            !.history = get_conversation_history(db, user_id, limit)]]
    /\ UNCHANGED <<api_key, db, writer, txn, pc>>

\* get_stats()
GetStats(p, args) ==
    /\ pc[p] = "idle"
    /\ LET user_id == GetUserId(args)
           conversation_count == get_conversation_count(db, user_id)
       IN  /\ req' = [req EXCEPT ![p] =
                        [NoReq EXCEPT !.op = "stats", !.user_id = user_id]]
           /\ rsp' = [rsp EXCEPT ![p] =
                        [NoRsp EXCEPT !.status = 200,
                                      !.level = StatsLevel(conversation_count),
                                      !.conversation_count = conversation_count]]
    /\ UNCHANGED <<api_key, db, writer, txn, pc>>

\* a caller of Database.get_user_level
GetUserLevel(p, user_id) ==
    /\ pc[p] = "idle"
    /\ req' = [req EXCEPT ![p] =
                 [NoReq EXCEPT !.op = "get_user_level", !.user_id = user_id]]
    /\ rsp' = [rsp EXCEPT ![p] =
                 [NoRsp EXCEPT !.level = get_user_level(db, user_id)]]
    /\ UNCHANGED <<api_key, db, writer, txn, pc>>

\* the process dies and is started again: open transactions are rolled back,
\* requests in flight get no response, the key is read from the environment anew
Restart(key) ==
    /\ api_key' = key
    /\ writer' = "none"
    /\ txn' = [p \in Procs |-> EmptyDb]
    /\ pc' = [p \in Procs |-> "idle"]
    /\ req' = [p \in Procs |-> IF pc[p] = "idle" THEN req[p] ELSE NoReq]
    /\ rsp' = [p \in Procs |-> IF pc[p] = "idle" THEN rsp[p] ELSE LostRsp]
    /\ UNCHANGED db

---------------------------------------------------------------------------
(* Requests *)

Body(has_user_id, user_id, has_message, message) ==
    [has_user_id |-> has_user_id, user_id |-> user_id,
     has_message |-> has_message, message |-> message,
     has_limit |-> FALSE, limit |-> 0]

Query(has_user_id, user_id, has_limit, limit) ==
    [has_user_id |-> has_user_id, user_id |-> user_id,
     has_message |-> FALSE, message |-> <<>>,
     has_limit |-> has_limit, limit |-> limit]

\* Request fields are strings when present: a JSON body that is no object, or a
\* message or user_id of another JSON type, ends in the handler's except branch
\* (a 500) and is not among the inputs.
\* the users a request can name: none (the default user) or "u2"
UserFields == {<<FALSE, "">>, <<TRUE, "u2">>}

\* message fields: absent, empty, blank, and two that are kept after trimming
MessageFields ==
    {<<FALSE, <<>>>>, <<TRUE, <<>>>>, <<TRUE, <<" ", " ">>>>,
     <<TRUE, <<"a">>>>, <<TRUE, <<" ", "b", " ">>>>}

ChatBodies ==
    {Body(u[1], u[2], m[1], m[2]) : u \in UserFields, m \in MessageFields}

ClearBodies == {Body(u[1], u[2], FALSE, <<>>) : u \in UserFields}

Limits == (0 - 1)..MaxLimit

HistoryQueries ==
    {Query(u[1], u[2], TRUE, l) : u \in UserFields, l \in Limits}
        \cup {Query(u[1], u[2], FALSE, 0) : u \in UserFields}

StatsQueries == {Query(u[1], u[2], FALSE, 0) : u \in UserFields}

---------------------------------------------------------------------------
(* Spec: two concurrent processes, chat and clear, and restarts that keep    *)
(* the environment; the provider answers or times out                       *)

SpecBodies ==
    {b \in ChatBodies : b.message \in {<<" ", " ">>, <<"a">>, <<" ", "b", " ">>}}

SpecOutcomes == {o \in Outcomes({<<"x">>}) : o.kind \in {"ok", "timeout"}}

Next ==
    \E p \in Procs :
        \/ \E data \in SpecBodies : ChatBegin(p, data)
        \/ \E o \in SpecOutcomes : ProviderReturn(p, o)
        \/ SaveInsert(p, 0, MaxRows)
        \/ SaveUpsert(p)
        \/ SaveCommit(p)
        \/ ChatFinish(p)
        \/ \E data \in ClearBodies : ClearBegin(p, data)
        \/ ClearStats(p)
        \/ ClearCommit(p)
        \/ Restart(api_key)

Spec == Init /\ [][Next]_vars


---------------------------------------------------------------------------
(* SpecService: one process, every request body and provider outcome, clock *)
(* readings that need not grow with the id, history requests with every     *)
(* limit of Limits, and restarts under a changed environment                *)

InitKey == Init /\ api_key = "sk"

\* every shape of the message field; the kept ones trim to the same text
ServiceBodies ==
    {b \in ChatBodies : b.message # <<" ", "b", " ">>}
        \cup {Body(u[1], u[2], TRUE, <<" ", "a", " ">>) : u \in UserFields}

NextService ==
    \/ \E data \in ServiceBodies : ChatBegin("p1", data)
    \/ \E o \in Outcomes({<<"x">>}) : ProviderReturn("p1", o)
    \/ \E timestamp \in {0, 1} : SaveInsert("p1", timestamp, MaxServiceRows)
    \/ SaveUpsert("p1")
    \/ SaveCommit("p1")
    \/ ChatFinish("p1")
    \/ \E data \in ClearBodies : ClearBegin("p1", data)
    \/ ClearStats("p1")
    \/ ClearCommit("p1")
    \/ \E args \in HistoryQueries : GetHistory("p1", args)
    \/ \E key \in {"", "sk"} : Restart(key)

SpecService == InitKey /\ [][NextService]_vars

---------------------------------------------------------------------------
(* SpecContext: one process; the first CtxScripted turns follow a script    *)
(* that gives the default user more than HistoryLimit turns with turns of   *)
(* "u2" between them, the turns after that are free                         *)

CtxScript(n) ==
    Body(n % 3 = 0, IF n % 3 = 0 THEN "u2" ELSE "",
         TRUE, IF n % 2 = 0 THEN <<" ", "b", " ">> ELSE <<"a">>)

CtxBodies ==
    IF db.sqlite_sequence < CtxScripted
    THEN {CtxScript(db.sqlite_sequence + 1)}
    ELSE ChatBodies

NextContext ==
    \/ \E data \in CtxBodies : ChatBegin("p1", data)
    \/ \E o \in Outcomes({<<"x">>}) : ProviderReturn("p1", o)
    \/ SaveInsert("p1", 0, MaxCtxRows)
    \/ SaveUpsert("p1")
    \/ SaveCommit("p1")
    \/ ChatFinish("p1")

SpecContext == InitKey /\ [][NextContext]_vars

---------------------------------------------------------------------------
(* SpecLevel: "p1" saves one turn after the other for the default user, up  *)
(* to MaxCount; "p2" asks for the stats and for get_user_level              *)

NextLevel ==
    \/ ChatBegin("p1", Body(FALSE, "", TRUE, <<"a">>))
    \/ ProviderReturn("p1", [kind |-> "ok", text |-> <<"x">>])
    \/ SaveInsert("p1", 0, MaxCount)
    \/ SaveUpsert("p1")
    \/ SaveCommit("p1")
    \/ ChatFinish("p1")
    \/ \E args \in StatsQueries : GetStats("p2", args)
    \/ \E user_id \in Users : GetUserLevel("p2", user_id)

SpecLevel == InitKey /\ [][NextLevel]_vars

---------------------------------------------------------------------------
(* Properties *)

TurnsOf(d, user_id) == {r \in d.conversations : r.user_id = user_id}

AllLimits == Limits \cup {HistoryLimit, DefaultLimit}

\* C1: in every committed database state, whatever saves, clears and restarts
\* (between the two writes of a save or a clear too) led to it, the stored
\* total_conversations of every user (0 without a stats row) is the number of
\* turns stored for that user.
C1_CountMatchesTurns ==
    \A u \in Users :
        /\ get_conversation_count(db, u) = Cardinality(TurnsOf(db, u))
        /\ db.user_stats[u].present <=> TurnsOf(db, u) # {}

\* C1 witness: a save stands between its two writes (its own image holds a turn
\* the counter does not count), the other process lost a request to a restart,
\* and the committed database holds a turn.
C1_Witness ==
    \E p \in Procs, q \in Procs :
        /\ pc[p] = "insert_done"
        /\ get_conversation_count(txn[p], req[p].user_id)
               # Cardinality(TurnsOf(txn[p], req[p].user_id))
        /\ rsp[q] = LostRsp
        /\ db.conversations # {}

\* C2: when a save commits, the count of its user is one more than before, and
\* for every N >= 1 the last element of history(user, N) is the saved turn.
C2_SaveAddsNewestTurn ==
    [][\A p \in Procs :
         SaveCommit(p) =>
            LET u == req[p].user_id
            IN  /\ get_conversation_count(db', u) = get_conversation_count(db, u) + 1
                /\ \A n \in AllLimits :
                      n >= 1 =>
                        LET h == get_conversation_history(db', u, n)
                        IN  /\ Len(h) >= 1
                            /\ h[Len(h)] =
                                 [user_message |-> req[p].user_message,
                                  ai_response |-> req[p].ai_response,
                                  timestamp |-> req[p].timestamp]]_vars

\* C2 witness: a save has just committed for a user who had an older turn with
\* another message.
C2_Witness ==
    \E p \in Procs :
        /\ pc[p] = "saved"
        /\ \E r \in TurnsOf(db, req[p].user_id) :
              r.user_message # req[p].user_message

\* C5: when a clear commits, the count of its user is 0 and every history of the
\* user is empty; the request answers 200 without an error; and a clear for a
\* user with no turns and no stats row leaves the database as it was.
C5_ClearEmptiesUser ==
    [][\A p \in Procs :
         ClearCommit(p) =>
            LET u == req[p].user_id
            IN  /\ get_conversation_count(db', u) = 0
                /\ \A l \in AllLimits : get_conversation_history(db', u, l) = <<>>
                /\ rsp'[p].status = 200 /\ ~rsp'[p].error
                /\ (TurnsOf(db, u) = {} /\ ~db.user_stats[u].present) => db' = db]_vars

\* C5 witness: both processes have cleared the same user, whose turn is gone
\* (an id was handed out that no row holds), while the other user keeps a turn.
C5_Witness ==
    \E u \in Users, v \in Users :
        /\ u # v
        /\ \A p \in Procs :
              /\ pc[p] = "idle" /\ req[p].op = "clear" /\ req[p].user_id = u
              /\ rsp[p].status = 200
        /\ TurnsOf(db, u) = {}
        /\ TurnsOf(db, v) # {}
        /\ db.sqlite_sequence > Cardinality(db.conversations)

\* C3 (as claimed): a history request with limit L is answered with at most L
\* elements, whatever integer the query string gave for L.
C3_HistoryAtMostLimit ==
    \A p \in Procs :
        (req[p].op = "history" /\ rsp[p].status = 200)
            => Len(rsp[p].history) <= req[p].limit

\* C3 witness: a history request with limit -1 was answered with two elements.
C3_Witness ==
    /\ req["p1"].op = "history" /\ req["p1"].limit = 0 - 1
    /\ rsp["p1"].status = 200 /\ Len(rsp["p1"].history) = 2

\* C3 for the limits that are not negative: there the bound holds.
C3_HistoryAtMostNonNegativeLimit ==
    \A p \in Procs :
        (req[p].op = "history" /\ rsp[p].status = 200 /\ req[p].limit >= 0)
            => Len(rsp[p].history) <= req[p].limit

\* the set S as a sequence of row dicts, smallest id first
RECURSIVE AscendingById(_)
AscendingById(S) ==
    IF S = {} THEN <<>>
    ELSE LET m == CHOOSE r \in S : \A q \in S : r.id <= q.id
         IN  <<RowDict(m)>> \o AscendingById(S \ {m})

\* C4: the answer of a history request is, in increasing id order, a set S of
\* turns of the asked user such that every turn of the user outside S has a
\* smaller id than every turn in S (and S is not cut shorter than the limit
\* asks); clock readings play no part.
C4_HistoryIsNewestById ==
    [][\A args \in HistoryQueries :
         GetHistory("p1", args) =>
            LET mine == TurnsOf(db, GetUserId(args))
            IN  \E S \in SUBSET mine :
                    /\ \A r \in S, q \in mine \ S : q.id < r.id
                    /\ Cardinality(S) >= Min(GetLimit(args), Cardinality(mine))
                    /\ rsp'["p1"].history = AscendingById(S)]_vars

\* C4 witness: a history request with limit 1 was answered with the newer of two
\* turns of its user although the older one carries the later clock reading,
\* and the other user has a turn as well.
C4_Witness ==
    /\ req["p1"].op = "history" /\ req["p1"].limit = 1
    /\ \E r1 \in TurnsOf(db, req["p1"].user_id), r2 \in TurnsOf(db, req["p1"].user_id) :
          /\ r1.id < r2.id /\ r1.timestamp > r2.timestamp
          /\ rsp["p1"].history = <<RowDict(r2)>>
    /\ \E u \in Users : u # req["p1"].user_id /\ TurnsOf(db, u) # {}

\* a message field that is absent, empty or made of whitespace only
Blank(data) ==
    ~data.has_message \/ \A i \in 1..Len(data.message) : data.message[i] \in Whitespace

\* C7: a chat request whose message is absent, empty or whitespace-only is
\* answered 400 with the error flag, leaves the database and every transaction
\* as they were, and makes no call to the provider.
C7_BlankMessageRejected ==
    [][\A data \in ServiceBodies :
         (ChatBegin("p1", data) /\ Blank(data)) =>
            /\ rsp'["p1"].status = 400 /\ rsp'["p1"].error
            /\ db' = db /\ txn' = txn /\ writer' = writer
            /\ ~req'["p1"].called /\ req'["p1"].sent = <<>>
            /\ pc'["p1"] = "idle"]_vars

\* C7 witness: a 400 was answered while the key is set and turns are stored.
C7_Witness ==
    /\ req["p1"].op = "chat" /\ rsp["p1"].status = 400
    /\ api_key = "sk"
    /\ db.conversations # {}

\* C8: when the provider call ends in anything but a 200 with a content, the
\* request is answered 500 with the error flag and the database is as before;
\* a save is only entered from a successful provider answer, and the turn a
\* save commits carries the text the provider returned.
C8_NoSaveWithoutAnswer ==
    [][/\ \A o \in Outcomes({<<"x">>}) :
            (ProviderReturn("p1", o) /\ o.kind # "ok") =>
               /\ rsp'["p1"].status = 500 /\ rsp'["p1"].error
               /\ pc'["p1"] = "idle"
               /\ db' = db /\ txn' = txn /\ writer' = writer
       /\ (pc["p1"] # "save" /\ pc'["p1"] = "save") =>
               \E o \in Outcomes({<<"x">>}) :
                   o.kind = "ok" /\ ProviderReturn("p1", o)
                       /\ req'["p1"].ai_response = o.text
       /\ SaveCommit("p1") =>
               /\ Cardinality(db'.conversations \ db.conversations) = 1
               /\ \A r \in db'.conversations \ db.conversations :
                     /\ r.ai_response = req["p1"].ai_response
                     /\ r.ai_response = <<"x">>
                     /\ r.user_id = req["p1"].user_id]_vars

\* C8 witness: a timeout was answered with a 500 while turns are stored.
C8_Witness ==
    /\ req["p1"].op = "chat" /\ req["p1"].called
    /\ rsp["p1"].status = 500 /\ rsp["p1"].message = "Request timeout"
    /\ pc["p1"] = "idle"
    /\ db.conversations # {}

\* C9: while the key is absent no request is at the provider or in a save; a
\* chat request that passes validation is then answered 500 "API key not
\* configured" without a call to the provider, and the database is as before.
C9_NoKeyNoCall ==
    [][api_key = "" =>
         /\ pc["p1"] \notin {"calling", "save", "insert_done", "upsert_done", "saved"}
         /\ \A data \in ServiceBodies :
               ChatBegin("p1", data) =>
                  /\ ~req'["p1"].called /\ req'["p1"].sent = <<>>
                  /\ pc'["p1"] = "idle"
                  /\ db' = db /\ txn' = txn /\ writer' = writer
                  /\ rsp'["p1"].error
                  /\ ~Blank(data) =>
                        /\ rsp'["p1"].status = 500
                        /\ rsp'["p1"].message = "API key not configured"]_vars

\* C9 witness: the configuration error was answered to a request of a user who
\* has turns stored (from before the restart that lost the key).
C9_Witness ==
    /\ api_key = ""
    /\ req["p1"].op = "chat" /\ rsp["p1"].message = "API key not configured"
    /\ TurnsOf(db, req["p1"].user_id) # {}

\* the level the specification gives for a count
CanonicalLevel(c) ==
    CASE c <= 20 -> "Beginner"
      [] 20 < c /\ c <= 50 -> "Intermediate"
      [] c > 50 -> "Advanced"

\* C6: the level in a chat response and in a stats response is the canonical
\* level of the count in the same response, and get_user_level gives the
\* canonical level of the stored count: Beginner up to 20, Intermediate from 21
\* to 50, Advanced from 51 on; so the three never differ for one count.
C6_LevelsAgree ==
    [][/\ ChatFinish("p1") =>
            /\ rsp'["p1"].conversation_count = get_conversation_count(db, req["p1"].user_id)
            /\ rsp'["p1"].level = CanonicalLevel(rsp'["p1"].conversation_count)
       /\ \A args \in StatsQueries :
            GetStats("p2", args) =>
               /\ rsp'["p2"].conversation_count
                      = get_conversation_count(db, GetUserId(args))
               /\ rsp'["p2"].level = CanonicalLevel(rsp'["p2"].conversation_count)
               /\ rsp'["p2"].level = ChatLevel(rsp'["p2"].conversation_count)
       /\ \A u \in Users :
            GetUserLevel("p2", u) =>
               /\ rsp'["p2"].level = CanonicalLevel(get_conversation_count(db, u))
               /\ rsp'["p2"].level = StatsLevel(get_conversation_count(db, u))
               /\ rsp'["p2"].level = ChatLevel(get_conversation_count(db, u))]_vars

\* C6 witness: with 51 turns stored, the chat response that saved the 51st and
\* get_user_level both say Advanced.
C6_Witness ==
    /\ get_conversation_count(db, "default_user") = 51
    /\ rsp["p1"].status = 200 /\ rsp["p1"].conversation_count = 51
    /\ rsp["p1"].level = "Advanced"
    /\ req["p2"].op = "get_user_level" /\ req["p2"].user_id = "default_user"
    /\ rsp["p2"].level = "Advanced"

\* m is raw without its leading and trailing whitespace, and is not empty
IsTrimOf(m, raw) ==
    /\ m # <<>>
    /\ m[1] \notin Whitespace /\ m[Len(m)] \notin Whitespace
    /\ \E i \in 1..Len(raw), j \in 1..Len(raw) :
          /\ i <= j /\ m = SubSeq(raw, i, j)
          /\ \A k \in (1..(i - 1)) \cup ((j + 1)..Len(raw)) : raw[k] \in Whitespace

\* the turns of the user that have fewer than HistoryLimit newer turns
LastTurns(d, user_id) ==
    {r \in TurnsOf(d, user_id) :
        Cardinality({q \in TurnsOf(d, user_id) : q.id > r.id}) < HistoryLimit}

\* C10: the message list a chat request sends to the provider is the system
\* preamble, then for each of the user's last HistoryLimit turns stored when
\* the request reads the history, oldest first, a user entry and an assistant
\* entry, then the trimmed new message as a user entry: at most
\* 2 * HistoryLimit + 2 entries, none from another user's turn.
C10_ContextIsLastTurns ==
    [][\A data \in ChatBodies :
         (ChatBegin("p1", data) /\ pc'["p1"] = "calling") =>
            LET sent == req'["p1"].sent
                last == LastTurns(db, GetUserId(data))
                k == Cardinality(last)
            IN  /\ req'["p1"].called
                /\ Len(sent) = 2 * k + 2
                /\ Len(sent) <= 2 * HistoryLimit + 2
                /\ sent[1] = [role |-> "system", content |-> SYSTEM_PROMPT]
                /\ sent[Len(sent)].role = "user"
                /\ IsTrimOf(sent[Len(sent)].content, data.message)
                /\ \A r \in last :
                      LET i == Cardinality({q \in last : q.id <= r.id})
                      IN  /\ sent[2 * i] =
                               [role |-> "user", content |-> r.user_message]
                          /\ sent[2 * i + 1] =
                               [role |-> "assistant", content |-> r.ai_response]
                /\ db' = db]_vars

\* C10 witness: a request is at the provider with a full context, of a user
\* who has more than HistoryLimit turns, with a turn of the other user stored
\* between them.
C10_Witness ==
    /\ pc["p1"] = "calling"
    /\ Len(req["p1"].sent) = 2 * HistoryLimit + 2
    /\ Cardinality(TurnsOf(db, req["p1"].user_id)) > HistoryLimit
    /\ \E r \in db.conversations, a \in LastTurns(db, req["p1"].user_id),
          b \in LastTurns(db, req["p1"].user_id) :
          r.user_id # req["p1"].user_id /\ a.id < r.id /\ r.id < b.id

=============================================================================
